---- MODULE Spec2Model ----
(***************************************************************************)
(* Listing store and listing query service of the property-listing        *)
(* application: the four route handlers (create, update, delete, get)     *)
(* over the single Listing collection, with the Mongoose schema's casting *)
(* and unique indexes and the cached database connection.                 *)
(*                                                                         *)
(* Strings are sequences of one-character strings.  A JavaScript number   *)
(* is a record [nan, int, frac]: nan for NaN, otherwise the integer part  *)
(* and the decimal fraction digits without trailing zeros.  An optional   *)
(* request field is <<>> when absent and <<v>> when present.              *)
(***************************************************************************)
EXTENDS Integers, Sequences, FiniteSets, TLC

(* ------------------------------ bounds -------------------------------- *)

\* Number of listings ever inserted (ids handed out) in one behaviour.
MaxListings == 2

\* Longest search term a get request carries.
MaxTermLen == 2

\* fetchListings requests of the search page that may be unanswered at once.
MaxInFlight == 2

\* Listings in the store when the search page shows a full page.
MaxShown == 10

\* Callers of connect() whose calls may overlap.
MaxCallers == 3

(* ------------------------------ strings ------------------------------- *)

Digits == {"0", "1"}

\* The characters of a search term.
TermChars == {"a", "A", "1", ".", " "}

None == << >>

Some(v) == << v >>

SeqsUpTo(S, n) == UNION { [1..k -> S] : k \in 0..n }

RECURSIVE TrimStart(_)
TrimStart(s) ==
    IF s = << >> THEN s
    ELSE IF Head(s) = " " THEN TrimStart(Tail(s)) ELSE s

RECURSIVE TrimEnd(_)
TrimEnd(s) ==
    IF s = << >> THEN s
    ELSE IF s[Len(s)] = " " THEN TrimEnd(SubSeq(s, 1, Len(s) - 1)) ELSE s

\* String.prototype.trim
Trim(s) == TrimEnd(TrimStart(s))

LowerChar(c) == IF c = "A" THEN "a" ELSE c

\* String.prototype.toLowerCase
ToLowerCase(s) == [i \in 1..Len(s) |-> LowerChar(s[i])]

(* ------------------------------ numbers ------------------------------- *)

NaN == [nan |-> TRUE, int |-> 0, frac |-> << >>]

Num(n) == [nan |-> FALSE, int |-> n, frac |-> << >>]

DigitVal(c) == IF c = "1" THEN 1 ELSE 0

RECURSIVE DecValue(_)
DecValue(ds) ==
    IF ds = << >> THEN 0
    ELSE 10 * DecValue(SubSeq(ds, 1, Len(ds) - 1)) + DigitVal(ds[Len(ds)])

RECURSIVE StripTrailingZeros(_)
StripTrailingZeros(ds) ==
    IF ds = << >> THEN ds
    ELSE IF ds[Len(ds)] = "0" THEN StripTrailingZeros(SubSeq(ds, 1, Len(ds) - 1))
    ELSE ds

\* Number(string): surrounding white space is ignored, the empty string is 0,
\* a decimal literal (digits, at most one point, at least one digit) is its
\* value, anything else is NaN.
Number(s) ==
    LET t    == Trim(s)
        dots == {i \in 1..Len(t) : t[i] = "."}
        dot  == IF dots = {} THEN Len(t) + 1 ELSE CHOOSE i \in dots : TRUE
    IN  IF t = << >> THEN Num(0)
        ELSE IF \E i \in 1..Len(t) : t[i] \notin Digits \cup {"."} THEN NaN
        ELSE IF Cardinality(dots) > 1 THEN NaN
        ELSE IF Len(t) = Cardinality(dots) THEN NaN
        ELSE [nan  |-> FALSE,
              int  |-> DecValue(SubSeq(t, 1, dot - 1)),
              frac |-> StripTrailingZeros(SubSeq(t, dot + 1, Len(t)))]

isNaN(x) == x.nan

(* --------------------------- input domains ---------------------------- *)

\* Project names and unit names a request may carry.  Of the thirteen fields
\* of a listing the model keeps projectName, unitName and unitNumber; the ten
\* others (description, address, sell, rent, parkingSpot, furnished, offer,
\* beds, baths, regularPrice) take the same path through every handler as
\* projectName does.
ProjectNames == { <<"a", "1">>, <<"A", ".">> }

UnitNames == { <<"a">>, <<"A", "1">>, <<"1", "0">> }

\* Raw unitNumber values of a request body: JSON strings, as the forms send
\* them.  "01" and "1" are different strings and the same number; "a" is no
\* number.
UnitNumberInputs == { <<"1">>, <<"0", "1">>, <<"1", "0">>, <<"a">> }

\* An id is a positive integer; 0 stands for a string that is no ObjectId.
\* One id more than can ever be inserted is always available as a well-formed
\* id that no listing has.
IdInputs == 0..(MaxListings + 1)

IsObjectId(i) == i > 0

ListingInputs ==
    [projectName : ProjectNames, unitName : UnitNames,
     unitNumber : UnitNumberInputs]

(* ------------------------------ state --------------------------------- *)

VARIABLES
    listings,   \* the Listing collection: a set of documents
    nextId,     \* the next _id the driver generates
    cached,     \* the connection cache: "none", "pending", "resolved",
                \* "conn" or "rejected"
    attempts,   \* the mongoose.connect calls started so far
    callers,    \* per caller of connect(), where its call stands
    req,        \* the request answered last
    resp,       \* the response (or uncaught exception) it produced
    pending,    \* per client, the create request it has in flight
    ui          \* the state of the page the browser shows

vars == << listings, nextId, cached, attempts, callers, req, resp, pending, ui >>

(* ----------------------------- responses ------------------------------ *)

\* new Response(JSON.stringify({success, message}), {status})
Failure(status, message) ==
    [kind |-> "json", status |-> status, success |-> "false",
     message |-> message, id |-> 0, body |-> << >>]

\* new Response(JSON.stringify({id, success: true}), {status: 200})
SuccessId(id) ==
    [kind |-> "json", status |-> 200, success |-> "true",
     message |-> "", id |-> id, body |-> << >>]

\* new Response(JSON.stringify({success: true, message}), {status: 200})
SuccessMessage(message) ==
    [kind |-> "json", status |-> 200, success |-> "true",
     message |-> message, id |-> 0, body |-> << >>]

\* new Response(JSON.stringify(listings), {status: 200})
ListingsBody(docs) ==
    [kind |-> "json", status |-> 200, success |-> "absent",
     message |-> "", id |-> 0, body |-> docs]

\* An exception that leaves the handler: no response of the handler's making.
Uncaught ==
    [kind |-> "uncaught", status |-> 500, success |-> "absent",
     message |-> "", id |-> 0, body |-> << >>]

NoResponse ==
    [kind |-> "none", status |-> 0, success |-> "absent",
     message |-> "", id |-> 0, body |-> << >>]

\* No page has been rendered.
NoPage == [page |-> "none"]

DuplicateUnitName == "Unit Name already exists. Please choose a unique Unit Name."

DuplicateUnitNumber == "Unit Number already exists. Please choose a unique Unit Number."

CreateInternalError == "Internal Server Error. Please try again later."

ListingNotFound == "Listing not found"

UpdateInternalError == "Error updating post"

PropertyNotFound == "Property not found."

PropertyDeleted == "Property deleted successfully."

InternalServerError == "Internal Server Error"

(* ------------------------------ schema -------------------------------- *)

\* Schema type Number: a string is cast with Number(); NaN is a CastError.
CastNumber(raw) == Number(raw)

\* A schema without unique: true on the two fields.
UniqueIndexViolationNoIndex(coll, doc) == FALSE

\* The two unique indexes (unitName, unitNumber): a document may not share
\* either value with another document of the collection.
UniqueIndexViolation(coll, doc) ==
    \E l \in coll :
        /\ l._id # doc._id
        /\ \/ l.unitName = doc.unitName
           \/ l.unitNumber = doc.unitNumber

\* The Boolean fields of the schema, which the search form also has.
Flags == {"sell", "rent", "parkingSpot", "furnished", "offer"}

\* The document Listing.create builds from the request body: the three
\* fields every body of the model carries, and the flags it carries.
NewDocument(data, id) ==
    LET doc == [_id         |-> id,
                projectName |-> data.projectName,
                unitName    |-> data.unitName,
                unitNumber  |-> CastNumber(data.unitNumber)]
        flags == Flags \cap DOMAIN data
    IN  IF flags = {} THEN doc
        ELSE [f \in DOMAIN doc \cup flags |-> IF f \in flags THEN data[f] ELSE doc[f]]

(* ---------------------------- connection ------------------------------ *)

\* The cache is the pair (cached.conn, cached.promise): "none" is (null,
\* null), "pending" (null, a promise not yet settled), "resolved" (null, a
\* fulfilled promise), "conn" (mongoose, a fulfilled promise) and "rejected"
\* (null, a rejected promise).

\* connect() run to its end within one handler: a cached connection or a
\* fulfilled promise is returned, a cached rejected attempt throws again,
\* and an attempt not yet settled either succeeds or fails.
ConnectResults(c) ==
    IF c \in {"conn", "resolved"} THEN {TRUE}
    ELSE IF c = "rejected" THEN {FALSE}
    ELSE {TRUE, FALSE}

CachedAfter(ok) == IF ok THEN "conn" ELSE "rejected"

\* A connect() that starts an attempt whenever no connection is cached.
StartsAttemptUnlessConnected(c) == c # "conn"

\* if (!cached.promise), reached when cached.conn is null: connect() calls
\* mongoose.connect.
StartsAttempt(c) == c = "none"

AttemptsAfter(c, n) == IF StartsAttempt(c) THEN n + 1 ELSE n

\* A settled promise that a later connect() awaits afresh.
AwaitPromiseRetried(c) ==
    IF c \in {"conn", "resolved"} THEN {"returned"} ELSE {"returned", "threw"}

\* await cached.promise on a settled promise: the caller gets the connection
\* or the error of the attempt.
AwaitPromise(c) ==
    IF c \in {"conn", "resolved"} THEN {"returned"} ELSE {"threw"}

\* The callers of connect() whose calls may overlap.
Callers == 1..MaxCallers

\* connect() up to its first await: a cached connection is returned at
\* once; otherwise an attempt is started unless one was, and the caller
\* waits for the promise.
ConnectCall(k) ==
    /\ callers[k] # "awaiting"
    /\ IF cached = "conn"
       THEN /\ callers' = [callers EXCEPT ![k] = "returned"]
            /\ UNCHANGED << cached, attempts >>
       ELSE /\ callers' = [callers EXCEPT ![k] = "awaiting"]
            /\ cached' = IF StartsAttempt(cached) THEN "pending" ELSE cached
            /\ attempts' = AttemptsAfter(cached, attempts)
    /\ UNCHANGED << listings, nextId, req, resp, pending, ui >>

\* mongoose.connect settles: the promise is fulfilled or rejected.
ConnectSettle ==
    /\ cached = "pending"
    /\ cached' \in {"resolved", "rejected"}
    /\ UNCHANGED << listings, nextId, attempts, callers, req, resp, pending, ui >>

\* connect() after its await: cached.conn is assigned and returned, or the
\* rejection is thrown to the caller.
ConnectResume(k) ==
    /\ callers[k] = "awaiting"
    /\ cached \in {"resolved", "conn", "rejected"}
    /\ \E outcome \in AwaitPromise(cached) :
           /\ callers' = [callers EXCEPT ![k] = outcome]
           /\ cached' = IF outcome = "returned" THEN "conn" ELSE cached
    /\ UNCHANGED << listings, nextId, attempts, req, resp, pending, ui >>

Connect ==
    \E k \in Callers : ConnectCall(k) \/ ConnectResume(k)

(* --------------------------- create listing --------------------------- *)

\* A unitName probe that finds nothing.
ExistingUnitNameSkipped(coll, data) == {}

\* Listing.findOne({ unitName: data.unitName })
ExistingUnitName(coll, data) ==
    {l \in coll : l.unitName = data.unitName}

\* A unitNumber probe that finds nothing.
ExistingUnitNumberSkipped(coll, data) == {}

\* Listing.findOne({ unitNumber: data.unitNumber }), the value cast to Number
ExistingUnitNumber(coll, data) ==
    {l \in coll : l.unitNumber = CastNumber(data.unitNumber)}

\* The create handler with the two probes in the other order.
CreateListingNumberFirst(coll, data, id) ==
    IF isNaN(CastNumber(data.unitNumber))
    THEN [listings |-> coll, resp |-> Failure(500, CreateInternalError)]
    ELSE IF ExistingUnitNumber(coll, data) # {}
    THEN [listings |-> coll, resp |-> Failure(400, DuplicateUnitNumber)]
    ELSE IF ExistingUnitName(coll, data) # {}
    THEN [listings |-> coll, resp |-> Failure(400, DuplicateUnitName)]
    ELSE IF UniqueIndexViolation(coll, NewDocument(data, id))
    THEN [listings |-> coll, resp |-> Failure(500, CreateInternalError)]
    ELSE [listings |-> coll \cup {NewDocument(data, id)}, resp |-> SuccessId(id)]

\* The create handler after connect(): the outcome [listings, resp].
CreateListing(coll, data, id) ==
    IF ExistingUnitName(coll, data) # {}
    THEN [listings |-> coll, resp |-> Failure(400, DuplicateUnitName)]
    ELSE IF isNaN(CastNumber(data.unitNumber))
    THEN [listings |-> coll, resp |-> Failure(500, CreateInternalError)]
    ELSE IF ExistingUnitNumber(coll, data) # {}
    THEN [listings |-> coll, resp |-> Failure(400, DuplicateUnitNumber)]
    ELSE IF UniqueIndexViolation(coll, NewDocument(data, id))
    THEN [listings |-> coll, resp |-> Failure(500, CreateInternalError)]
    ELSE [listings |-> coll \cup {NewDocument(data, id)}, resp |-> SuccessId(id)]

CreatePOST(coll, data, id, connected) ==
    IF ~connected
    THEN [listings |-> coll, resp |-> Failure(500, CreateInternalError)]
    ELSE CreateListing(coll, data, id)

Create ==
    \E data \in ListingInputs, ok \in ConnectResults(cached) :
        LET out == CreatePOST(listings, data, nextId, ok)
            inserted == out.listings # listings
        IN  /\ inserted => nextId <= MaxListings
            /\ cached' = CachedAfter(ok)
            /\ attempts' = AttemptsAfter(cached, attempts)
            /\ UNCHANGED << callers, ui >>
            /\ listings' = out.listings
            /\ nextId' = IF inserted THEN nextId + 1 ELSE nextId
            /\ req' = [op |-> "create", data |-> data]
            /\ resp' = out.resp
            /\ UNCHANGED pending

(* --------------------------- update listing --------------------------- *)

\* formData carries the field: data.formData[field] is not undefined.
Supplied(formData, field) == field \in DOMAIN formData

\* The cast of the update fails: unitNumber is supplied and is not a number.
CastFails(formData) ==
    /\ Supplied(formData, "unitNumber")
    /\ isNaN(CastNumber(formData.unitNumber))

\* A $set that writes an empty value for every field formData lacks.
SetFieldsBlankingAbsent(doc, formData) ==
    [doc EXCEPT
        !.projectName = IF Supplied(formData, "projectName")
                        THEN formData.projectName ELSE << >>,
        !.unitName    = IF Supplied(formData, "unitName")
                        THEN formData.unitName ELSE << >>,
        !.unitNumber  = IF Supplied(formData, "unitNumber")
                        THEN CastNumber(formData.unitNumber) ELSE Number(<< >>)]

\* The document after $set of the named fields of formData; a key whose
\* value is undefined is dropped from the update and the field keeps its
\* value.
SetFields(doc, formData) ==
    [doc EXCEPT
        !.projectName = IF Supplied(formData, "projectName")
                        THEN formData.projectName ELSE @,
        !.unitName    = IF Supplied(formData, "unitName")
                        THEN formData.unitName ELSE @,
        !.unitNumber  = IF Supplied(formData, "unitNumber")
                        THEN CastNumber(formData.unitNumber) ELSE @]

\* An update that answers success whether or not a listing matched.
UpdateListingNoCheck(coll, data) ==
    LET target == {l \in coll : l._id = data.listingId} IN
    IF ~IsObjectId(data.listingId) \/ CastFails(data.formData)
    THEN [listings |-> coll, resp |-> Failure(500, UpdateInternalError)]
    ELSE IF target = {}
    THEN [listings |-> coll, resp |-> SuccessId(data.listingId)]
    ELSE LET old == CHOOSE l \in target : TRUE
             new == SetFields(old, data.formData)
         IN  IF UniqueIndexViolation(coll, new)
             THEN [listings |-> coll, resp |-> Failure(500, UpdateInternalError)]
             ELSE [listings |-> (coll \ {old}) \cup {new}, resp |-> SuccessId(new._id)]

\* An update of a collection without unique indexes.
UpdateListingNoIndex(coll, data) ==
    LET target == {l \in coll : l._id = data.listingId} IN
    IF ~IsObjectId(data.listingId) \/ CastFails(data.formData)
    THEN [listings |-> coll, resp |-> Failure(500, UpdateInternalError)]
    ELSE IF target = {}
    THEN [listings |-> coll, resp |-> Failure(404, ListingNotFound)]
    ELSE LET old == CHOOSE l \in target : TRUE
             new == SetFields(old, data.formData)
         IN  [listings |-> (coll \ {old}) \cup {new}, resp |-> SuccessId(new._id)]

\* Listing.findByIdAndUpdate(listingId, {$set: ...}, {new: true}) and the
\* response built from its result.
UpdateListing(coll, data) ==
    LET target == {l \in coll : l._id = data.listingId} IN
    IF ~IsObjectId(data.listingId) \/ CastFails(data.formData)
    THEN [listings |-> coll, resp |-> Failure(500, UpdateInternalError)]
    ELSE IF target = {}
    THEN [listings |-> coll, resp |-> Failure(404, ListingNotFound)]
    ELSE LET old == CHOOSE l \in target : TRUE
             new == SetFields(old, data.formData)
         IN  IF UniqueIndexViolation(coll, new)
             THEN [listings |-> coll, resp |-> Failure(500, UpdateInternalError)]
             ELSE [listings |-> (coll \ {old}) \cup {new}, resp |-> SuccessId(new._id)]

UpdatePOST(coll, data, connected) ==
    IF ~connected
    THEN [listings |-> coll, resp |-> Failure(500, UpdateInternalError)]
    ELSE UpdateListing(coll, data)

\* One update request, its formData drawn from inputs.
UpdateFrom(inputs) ==
    \E id \in IdInputs, formData \in inputs, ok \in ConnectResults(cached) :
        LET data == [listingId |-> id, formData |-> formData]
            out  == UpdatePOST(listings, data, ok)
        IN  /\ cached' = CachedAfter(ok)
            /\ attempts' = AttemptsAfter(cached, attempts)
            /\ UNCHANGED << callers, ui >>
            /\ listings' = out.listings
            /\ req' = [op |-> "update", data |-> data]
            /\ resp' = out.resp
            /\ UNCHANGED << nextId, pending >>

Update == UpdateFrom(ListingInputs)

\* The fields an update names that the model keeps.
FieldNames == {"projectName", "unitName", "unitNumber"}

\* Bodies in which formData lacks some of the fields.
PartialInputs ==
    {[f \in D |-> r[f]] : r \in ListingInputs, D \in SUBSET FieldNames}

PartialUpdate == UpdateFrom(PartialInputs)

(* --------------------------- delete listing --------------------------- *)

\* A delete that finds the listing and leaves it in the collection.
DeleteListingFindOnly(coll, data) ==
    LET target == {l \in coll : l._id = data.listingId} IN
    IF ~IsObjectId(data.listingId)
    THEN [listings |-> coll, resp |-> Failure(500, InternalServerError)]
    ELSE IF target = {}
    THEN [listings |-> coll, resp |-> Failure(404, PropertyNotFound)]
    ELSE [listings |-> coll, resp |-> SuccessMessage(PropertyDeleted)]

\* A delete that answers success whether or not a listing matched.
DeleteListingNoCheck(coll, data) ==
    LET target == {l \in coll : l._id = data.listingId} IN
    IF ~IsObjectId(data.listingId)
    THEN [listings |-> coll, resp |-> Failure(500, InternalServerError)]
    ELSE [listings |-> coll \ target, resp |-> SuccessMessage(PropertyDeleted)]

\* Listing.findByIdAndDelete(listingId) and the response built from its
\* result.
DeleteListing(coll, data) ==
    LET target == {l \in coll : l._id = data.listingId} IN
    IF ~IsObjectId(data.listingId)
    THEN [listings |-> coll, resp |-> Failure(500, InternalServerError)]
    ELSE IF target = {}
    THEN [listings |-> coll, resp |-> Failure(404, PropertyNotFound)]
    ELSE [listings |-> coll \ target, resp |-> SuccessMessage(PropertyDeleted)]

\* connect() is awaited outside the try block.
DELETE(coll, data, connected) ==
    IF ~connected
    THEN [listings |-> coll, resp |-> Uncaught]
    ELSE DeleteListing(coll, data)

Delete ==
    \E id \in IdInputs, ok \in ConnectResults(cached) :
        LET data == [listingId |-> id]
            out  == DELETE(listings, data, ok)
        IN  /\ cached' = CachedAfter(ok)
            /\ attempts' = AttemptsAfter(cached, attempts)
            /\ UNCHANGED << callers, ui >>
            /\ listings' = out.listings
            /\ req' = [op |-> "delete", data |-> data]
            /\ resp' = out.resp
            /\ UNCHANGED << nextId, pending >>

(* ---------------- create listing, one await at a time ---------------- *)

\* The clients whose create requests may overlap, and the bodies they send.
Clients == {"c1", "c2"}

RaceInputs ==
    [projectName : {<<"a", "1">>}, unitName : {<<"a">>, <<"A", "1">>},
     unitNumber : {<<"1">>, <<"0", "1">>, <<"1", "0">>}]

Idle == [pc |-> "idle"]

\* An insert whose rejection is answered like a failed unitName probe.
InsertListingDuplicateAnswer(coll, data, id) ==
    IF UniqueIndexViolation(coll, NewDocument(data, id))
    THEN [listings |-> coll, resp |-> Failure(400, DuplicateUnitName)]
    ELSE [listings |-> coll \cup {NewDocument(data, id)}, resp |-> SuccessId(id)]

\* An insert into a collection that accepts any document.
InsertListingUnchecked(coll, data, id) ==
    [listings |-> coll \cup {NewDocument(data, id)}, resp |-> SuccessId(id)]

\* Listing.create: the insert, which the unique indexes may reject.
InsertListing(coll, data, id) ==
    IF UniqueIndexViolation(coll, NewDocument(data, id))
    THEN [listings |-> coll, resp |-> Failure(500, CreateInternalError)]
    ELSE [listings |-> coll \cup {NewDocument(data, id)}, resp |-> SuccessId(id)]

\* A client's request arrives: connect(), req.json() and the unitName probe.
CreateProbeUnitName(c) ==
    /\ pending[c] = Idle
    /\ \E data \in RaceInputs, ok \in ConnectResults(cached) :
           /\ cached' = CachedAfter(ok)
           /\ attempts' = AttemptsAfter(cached, attempts)
           /\ UNCHANGED << callers, ui >>
           /\ IF ~ok
              THEN /\ req' = [op |-> "create", data |-> data]
                   /\ resp' = Failure(500, CreateInternalError)
                   /\ UNCHANGED pending
              ELSE IF ExistingUnitName(listings, data) # {}
              THEN /\ req' = [op |-> "create", data |-> data]
                   /\ resp' = Failure(400, DuplicateUnitName)
                   /\ UNCHANGED pending
              ELSE /\ pending' = [pending EXCEPT ![c] = [pc |-> "probedName", data |-> data]]
                   /\ UNCHANGED << req, resp >>
           /\ UNCHANGED << listings, nextId >>

\* The unitNumber probe of a request that passed the unitName probe.
CreateProbeUnitNumber(c) ==
    /\ pending[c].pc = "probedName"
    /\ LET data == pending[c].data IN
       IF isNaN(CastNumber(data.unitNumber))
       THEN /\ req' = [op |-> "create", data |-> data]
            /\ resp' = Failure(500, CreateInternalError)
            /\ pending' = [pending EXCEPT ![c] = Idle]
       ELSE IF ExistingUnitNumber(listings, data) # {}
       THEN /\ req' = [op |-> "create", data |-> data]
            /\ resp' = Failure(400, DuplicateUnitNumber)
            /\ pending' = [pending EXCEPT ![c] = Idle]
       ELSE /\ pending' = [pending EXCEPT ![c] = [pc |-> "probedNumber", data |-> data]]
            /\ UNCHANGED << req, resp >>
    /\ UNCHANGED << listings, nextId, cached, attempts, callers, ui >>

\* Listing.create of a request that passed both probes, and its response.
CreateInsert(c) ==
    /\ pending[c].pc = "probedNumber"
    /\ LET data == pending[c].data
           out  == InsertListing(listings, data, nextId)
           inserted == out.listings # listings
       IN  /\ inserted => nextId <= MaxListings
           /\ listings' = out.listings
           /\ nextId' = IF inserted THEN nextId + 1 ELSE nextId
           /\ req' = [op |-> "create", data |-> data]
           /\ resp' = out.resp
           /\ pending' = [pending EXCEPT ![c] = Idle]
    /\ UNCHANGED << cached, attempts, callers, ui >>

RaceCreate ==
    \E c \in Clients :
        CreateProbeUnitName(c) \/ CreateProbeUnitNumber(c) \/ CreateInsert(c)

RaceUpdate == UpdateFrom(RaceInputs)

(* ------------------- requests over a failing store ------------------- *)

\* The round trips of the create handler to the store, any of which may
\* throw: the two findOne probes, Listing.create, and newListing.save().
CreateRoundTrips == {"findOne", "create", "save"}

\* The create handler when the store fails at round trip fault ("none": at
\* no round trip). Listing.create has inserted the document by the time
\* newListing.save() is awaited; whatever throws is answered by the catch.
CreateListingFault(coll, data, id, fault) ==
    LET out == CreateListing(coll, data, id) IN
    IF fault = "findOne"
    THEN [listings |-> coll, resp |-> Failure(500, CreateInternalError)]
    ELSE IF out.resp.success # "true" THEN out
    ELSE IF fault = "create"
    THEN [listings |-> coll, resp |-> Failure(500, CreateInternalError)]
    ELSE IF fault = "save"
    THEN [listings |-> out.listings, resp |-> Failure(500, CreateInternalError)]
    ELSE out

CreateFault ==
    \E data \in RaceInputs, fault \in CreateRoundTrips \cup {"none"},
       ok \in ConnectResults(cached) :
        LET out == IF ok THEN CreateListingFault(listings, data, nextId, fault)
                         ELSE CreatePOST(listings, data, nextId, ok)
            inserted == out.listings # listings
        IN  /\ cached' = CachedAfter(ok)
            /\ attempts' = AttemptsAfter(cached, attempts)
            /\ UNCHANGED << callers, ui >>
            /\ inserted => nextId <= MaxListings
            /\ listings' = out.listings
            /\ nextId' = IF inserted THEN nextId + 1 ELSE nextId
            /\ req' = [op |-> "create", data |-> data, fault |-> fault]
            /\ resp' = out.resp
            /\ UNCHANGED pending

\* The update handler when its one round trip, findByIdAndUpdate, throws.
UpdateFault ==
    \E id \in IdInputs, formData \in RaceInputs, fails \in BOOLEAN,
       ok \in ConnectResults(cached) :
        LET data == [listingId |-> id, formData |-> formData]
            out  == IF ok /\ fails
                    THEN [listings |-> listings, resp |-> Failure(500, UpdateInternalError)]
                    ELSE UpdatePOST(listings, data, ok)
        IN  /\ cached' = CachedAfter(ok)
            /\ attempts' = AttemptsAfter(cached, attempts)
            /\ UNCHANGED << callers, ui >>
            /\ listings' = out.listings
            /\ req' = [op |-> "update", data |-> data, fault |-> fails]
            /\ resp' = out.resp
            /\ UNCHANGED << nextId, pending >>

\* The delete handler when its one round trip, findByIdAndDelete, throws.
DeleteFault ==
    \E id \in IdInputs, fails \in BOOLEAN, ok \in ConnectResults(cached) :
        LET data == [listingId |-> id]
            out  == IF ok /\ fails
                    THEN [listings |-> listings, resp |-> Failure(500, InternalServerError)]
                    ELSE DELETE(listings, data, ok)
        IN  /\ cached' = CachedAfter(ok)
            /\ attempts' = AttemptsAfter(cached, attempts)
            /\ UNCHANGED << callers, ui >>
            /\ listings' = out.listings
            /\ req' = [op |-> "delete", data |-> data, fault |-> fails]
            /\ resp' = out.resp
            /\ UNCHANGED << nextId, pending >>

(* ---------------------------- get listings ---------------------------- *)

DefaultStartIndex == 0

DefaultLimit == 9

\* parseInt(x) with nothing to fall back on.
ParseIntNoDefault(opt, dflt) ==
    IF opt = None THEN 0 ELSE opt[1]

\* parseInt(x) || dflt for a JSON integer or an absent field.
ParseIntOr(opt, dflt) ==
    IF opt = None THEN dflt
    ELSE IF opt[1] = 0 THEN dflt ELSE opt[1]

\* { field: { $regex: pattern, $options: 'i' } }: the pattern matches
\* somewhere in the value, a point matches any character, every other
\* character of the alphabet matches itself, letters in either case.
RegexMatch(pattern, value) ==
    \E k \in 0..(Len(value) - Len(pattern)) :
        \A j \in 1..Len(pattern) :
            \/ pattern[j] = "."
            \/ LowerChar(pattern[j]) = LowerChar(value[k + j])

\* A search clause that also matches a numeric term against the two names.
SearchPredicateTextToo(term, l) ==
    LET t == Trim(term)
        isNumericSearch == ~isNaN(Number(t))
    IN  \/ isNumericSearch /\ l.unitNumber = Number(t)
        \/ RegexMatch(ToLowerCase(t), l.projectName)
        \/ RegexMatch(ToLowerCase(t), l.unitName)

\* The $or clause built from a non-empty trimmed search term.
SearchPredicate(term, l) ==
    LET t == Trim(term)
        isNumericSearch == ~isNaN(Number(t))
    IN  IF isNumericSearch
        THEN l.unitNumber = Number(t)
        ELSE \/ RegexMatch(ToLowerCase(t), l.projectName)
             \/ RegexMatch(ToLowerCase(t), l.unitName)

\* A filter that drops the search clause only for an empty string, without
\* trimming it first.
FilterMatchesUntrimmed(data, l) ==
    /\ data.listingId # None => l._id = data.listingId[1]
    /\ (data.searchTerm # None /\ data.searchTerm[1] # << >>)
           => SearchPredicate(data.searchTerm[1], l)

\* The filter object handed to Listing.find.  The schema has no userId path
\* and connect() sets strictQuery, so the userId clause is removed from the
\* filter before it reaches the store.
FilterMatches(data, l) ==
    /\ data.listingId # None => l._id = data.listingId[1]
    /\ (data.searchTerm # None /\ Trim(data.searchTerm[1]) # << >>)
           => SearchPredicate(data.searchTerm[1], l)

\* The sort key: a document without the field sorts as null.
UpdatedAt(l) == IF "updatedAt" \in DOMAIN l THEN l.updatedAt ELSE 0

\* .sort({ updatedAt: direction }): every arrangement of the documents that
\* respects the key; documents with equal keys come in any order.
Sorted(docs, direction) ==
    { f \in [1..Cardinality(docs) -> docs] :
        /\ \A i, j \in DOMAIN f : i # j => f[i] # f[j]
        /\ \A i, j \in DOMAIN f :
               i < j => IF direction = 1
                        THEN UpdatedAt(f[i]) <= UpdatedAt(f[j])
                        ELSE UpdatedAt(f[i]) >= UpdatedAt(f[j]) }

\* A page cut without the skip.
PageNoSkip(f, startIndex, limit) ==
    LET n == IF limit < 0 THEN 0 - limit ELSE limit
    IN  SubSeq(f, 1, IF n < Len(f) THEN n ELSE Len(f))

\* .skip(startIndex).limit(limit); a negative limit counts as its magnitude.
Page(f, startIndex, limit) ==
    LET n == IF limit < 0 THEN 0 - limit ELSE limit
        last == IF startIndex + n < Len(f) THEN startIndex + n ELSE Len(f)
    IN  SubSeq(f, startIndex + 1, last)

\* The pagination and sorting parameters parsed from the request body.
QueryPlan(data) ==
    [startIndex    |-> ParseIntOr(data.startIndex, DefaultStartIndex),
     limit         |-> ParseIntOr(data.limit, DefaultLimit),
     sortDirection |-> IF data.order = Some("asc") THEN 1 ELSE -1]

\* The get handler after connect(): the set of responses it may give.
GetListings(coll, data) ==
    LET startIndex    == QueryPlan(data).startIndex
        limit         == QueryPlan(data).limit
        sortDirection == QueryPlan(data).sortDirection
        found         == {l \in coll : FilterMatches(data, l)}
    IN  IF data.listingId # None /\ ~IsObjectId(data.listingId[1])
        THEN {Failure(500, InternalServerError)}
        ELSE IF startIndex < 0
        THEN {Failure(500, InternalServerError)}
        ELSE {ListingsBody(Page(f, startIndex, limit)) : f \in Sorted(found, sortDirection)}

\* connect() is awaited outside the try block.
GetPOST(coll, data, connected) ==
    IF ~connected THEN {Uncaught} ELSE GetListings(coll, data)

SearchTerms == SeqsUpTo(TermChars, MaxTermLen)

PageInputs == {None, Some(-1), Some(0), Some(1), Some(2)}

OrderInputs == {None, Some("asc"), Some("desc")}

NoFilter ==
    [userId |-> None, searchTerm |-> None, listingId |-> None,
     startIndex |-> None, limit |-> None, order |-> None]

\* Request bodies of the get handler: a lookup by id, a search, a page.
LookupInputs == { [NoFilter EXCEPT !.listingId = Some(i)] : i \in IdInputs }

SearchInputs ==
    { [NoFilter EXCEPT !.searchTerm = Some(t)] : t \in SearchTerms } \cup {NoFilter}

PagingInputs ==
    [userId : {None}, searchTerm : {None}, listingId : {None},
     startIndex : PageInputs, limit : PageInputs, order : OrderInputs]

\* Request bodies that combine the three filters.
UserIds == {"u1"}

FilterInputs ==
    [userId : {None} \cup {Some(u) : u \in UserIds},
     searchTerm : {None} \cup {Some(t) : t \in SeqsUpTo(TermChars, 1)},
     listingId : {None} \cup {Some(i) : i \in IdInputs},
     startIndex : {None}, limit : {None}, order : {None}]

\* One request to the get handler, its body drawn from inputs.
Query(inputs) ==
    \E data \in inputs, ok \in ConnectResults(cached) :
        \E r \in GetPOST(listings, data, ok) :
            /\ cached' = CachedAfter(ok)
            /\ attempts' = AttemptsAfter(cached, attempts)
            /\ UNCHANGED << callers, ui >>
            /\ req' = [op |-> "query", data |-> data]
            /\ resp' = r
            /\ UNCHANGED << listings, nextId, pending >>

Lookup == Query(LookupInputs)

Search == Query(SearchInputs)

Paging == Query(PagingInputs)

Filter == Query(FilterInputs)

(* ------------------------- listing detail page ------------------------ *)

\* The value the catch block assigns to listing.
FailedToLoad == [title |-> "Failed to Load listing"]

\* What reaches the page: the fetch throws, or it resolves with a response.
FetchOutcomes == {"throws", "resolves"}

\* res.json() throws: the body of the response is not JSON.
JsonThrows(answer) == answer.kind # "json"

\* listing after the try/catch: data[0] of the parsed body (undefined for an
\* empty array and for an object), or the catch block's record.
PostListing(fetch, answer) ==
    IF fetch = "throws" \/ JsonThrows(answer) THEN Some(FailedToLoad)
    ELSE IF answer.status = 200 /\ answer.body # << >> THEN Some(answer.body[1])
    ELSE None

\* if (!listing || listing.name === "Failed to load listing")
PostView(listing) ==
    IF listing = None THEN "Listing Not Found"
    ELSE IF "name" \in DOMAIN listing[1] /\ listing[1].name = "Failed to load listing"
    THEN "Listing Not Found"
    ELSE "detail"

\* The page is rendered for the id of the URL: the fetch of the get
\* handler, the handler's run, and the view chosen.
RenderPost ==
    \E id \in IdInputs, fetch \in FetchOutcomes, ok \in ConnectResults(cached) :
        LET data == [NoFilter EXCEPT !.listingId = Some(id)] IN
        \E r \in GetPOST(listings, data, ok) :
            LET answer == IF fetch = "throws" THEN NoResponse ELSE r IN
            /\ IF fetch = "throws"
               THEN UNCHANGED << cached, attempts, req, resp >>
               ELSE /\ cached' = CachedAfter(ok)
                    /\ attempts' = AttemptsAfter(cached, attempts)
                    /\ req' = [op |-> "query", data |-> data]
                    /\ resp' = r
            /\ ui' = [page |-> "post", id |-> id, fetch |-> fetch, answer |-> answer,
                      listing |-> PostListing(fetch, answer),
                      view |-> PostView(PostListing(fetch, answer))]
            /\ UNCHANGED << listings, nextId, callers, pending >>

(* ------------------------------- flags -------------------------------- *)

\* Create bodies that carry two of the flags.
FlagInputs ==
    [projectName : {<<"a", "1">>}, unitName : {<<"a">>, <<"A", "1">>},
     unitNumber : {<<"1">>, <<"1", "0">>}, sell : BOOLEAN, offer : BOOLEAN]

CreateFlagged ==
    \E data \in FlagInputs, ok \in ConnectResults(cached) :
        LET out == CreatePOST(listings, data, nextId, ok)
            inserted == out.listings # listings
        IN  /\ inserted => nextId <= MaxListings
            /\ cached' = CachedAfter(ok)
            /\ attempts' = AttemptsAfter(cached, attempts)
            /\ listings' = out.listings
            /\ nextId' = IF inserted THEN nextId + 1 ELSE nextId
            /\ req' = [op |-> "create", data |-> data]
            /\ resp' = out.resp
            /\ UNCHANGED << callers, pending, ui >>

\* The bodies fetchListings sends: the search term, the flags of the form,
\* startIndex 0 and limit 9.
FlagQueries ==
    {[userId |-> None, listingId |-> None, order |-> None,
      searchTerm |-> Some(term), startIndex |-> Some(0), limit |-> Some(DefaultLimit),
      sell |-> sell, offer |-> offer] :
         term \in {<< >>, <<"a">>}, sell \in BOOLEAN, offer \in BOOLEAN}

FlagQuery == Query(FlagQueries)

(* ----------------------------- search page ---------------------------- *)

\* The number of listings the page asks for, and the length from which a
\* response is taken to be a full page.
PageSize == 9

\* useState: sidebardata.searchTerm, listings, showMore and loading, with
\* the fetchListings requests that are not yet answered.
SearchPage(term, shown, showMore, loading, inflight) ==
    [page |-> "search", term |-> term, listings |-> shown,
     showMore |-> showMore, loading |-> loading, inflight |-> inflight]

\* The body fetchListings sends for a search term.
FetchBody(term) ==
    [NoFilter EXCEPT !.searchTerm = Some(term),
                     !.startIndex = Some(0),
                     !.limit = Some(PageSize)]

\* The page is opened: the effect runs fetchListings for the empty term.
OpenSearch ==
    /\ ui = NoPage
    /\ ui' = SearchPage(<< >>, << >>, FALSE, TRUE, {<< >>})
    /\ UNCHANGED << listings, nextId, cached, attempts, callers, req, resp, pending >>

\* handleChange on the search field: sidebardata changes, and the effect
\* runs fetchListings, which clears showMore and sends its request.
ChangeTerm(terms) ==
    /\ ui.page = "search"
    /\ \E term \in terms :
           /\ term # ui.term
           /\ Cardinality(ui.inflight \cup {term}) <= MaxInFlight
           /\ ui' = [ui EXCEPT !.term = term, !.showMore = FALSE,
                               !.loading = TRUE, !.inflight = @ \cup {term}]
    /\ UNCHANGED << listings, nextId, cached, attempts, callers, req, resp, pending >>

\* The page after the response to a fetchListings request: an array is
\* displayed, and shows the button if it is a full page; a thrown fetch, a
\* response that is not ok and a body that is not an array empty the list.
AfterFetch(page, term, fetch, answer) ==
    LET isArray == fetch = "resolves" /\ answer.kind = "json" /\ answer.status = 200
        shown   == IF isArray THEN answer.body ELSE << >>
    IN  [page EXCEPT !.listings = shown,
                     !.showMore = IF isArray /\ Len(shown) > PageSize - 1 THEN TRUE ELSE @,
                     !.loading = FALSE,
                     !.inflight = @ \ {term}]

\* A fetchListings request is answered: the get handler runs and the page
\* takes the response.
FetchAnswered ==
    /\ ui.page = "search"
    /\ \E term \in ui.inflight, fetch \in FetchOutcomes, ok \in ConnectResults(cached) :
           \E r \in GetPOST(listings, FetchBody(term), ok) :
               /\ IF fetch = "throws"
                  THEN UNCHANGED << cached, attempts, req, resp >>
                  ELSE /\ cached' = CachedAfter(ok)
                       /\ attempts' = AttemptsAfter(cached, attempts)
                       /\ req' = [op |-> "query", data |-> FetchBody(term)]
                       /\ resp' = r
               /\ ui' = AfterFetch(ui, term, fetch, r)
    /\ UNCHANGED << listings, nextId, callers, pending >>

\* The search terms typed into the form.
FormTerms == {<< >>, <<"a">>, <<"1">>}

ChangeFormTerm == ChangeTerm(FormTerms)

\* The route of the get handler exports POST only: a GET is answered 405
\* with no body.
MethodNotAllowed ==
    [kind |-> "empty", status |-> 405, success |-> "absent",
     message |-> "", id |-> 0, body |-> << >>]

\* onShowMoreClick: a GET of /api/listing/get with startIndex in the query
\* string; res.json() throws on the empty body, outside any try, and the
\* state of the page is as it was.
ShowMore ==
    /\ ui.page = "search"
    /\ ui.showMore
    /\ req' = [op |-> "showMore", method |-> "GET", startIndex |-> Len(ui.listings)]
    /\ resp' = MethodNotAllowed
    /\ UNCHANGED << listings, nextId, cached, attempts, callers, pending, ui >>

\* The body of the create request for the n-th listing of a numbered store:
\* n in binary digits is its unitName and, read as a decimal, its unitNumber.
RECURSIVE Binary(_)
Binary(n) ==
    IF n < 2 THEN << IF n = 1 THEN "1" ELSE "0" >>
    ELSE Binary(n \div 2) \o << IF n % 2 = 1 THEN "1" ELSE "0" >>

NumberedInput(n) ==
    [projectName |-> << "a" >>, unitName |-> Binary(n), unitNumber |-> Binary(n)]

\* The store after create requests for the first n numbered listings.
NumberedListings(n) == {NewDocument(NumberedInput(i), i) : i \in 1..n}

\* Search terms that a numbered store matches on unitNumber alone.
NumberedTerms == {Binary(1), Binary(2)}

ChangeNumberedTerm == ChangeTerm(NumberedTerms)

\* The search page showing the first full page of a store of n numbered
\* listings, n a full page or more.
InitShown ==
    \E n \in PageSize..MaxShown :
        /\ listings = NumberedListings(n)
        /\ nextId = n + 1
        /\ cached = "conn"
        /\ attempts = 1
        /\ callers = [k \in Callers |-> "idle"]
        /\ req = [op |-> "query", data |-> FetchBody(<< >>)]
        /\ resp = ListingsBody([i \in 1..PageSize |-> NewDocument(NumberedInput(i), i)])
        /\ pending = [c \in Clients |-> Idle]
        /\ ui = SearchPage(<< >>, resp.body, TRUE, FALSE, {})

(* ------------------------- update-listing page ----------------------- *)

\* useState: the form before the listing is fetched.
InitialFormData ==
    [projectName |-> << >>, unitName |-> << >>, unitNumber |-> << >>]

\* The page with its formData: Some(record), or None once formData is
\* undefined.
EditPage(id, formData, fetched) ==
    [page |-> "edit", id |-> id, formData |-> formData, fetched |-> fetched]

\* The page is opened for the id of the URL; the effect sends its fetch.
OpenEdit ==
    /\ ui = NoPage
    /\ \E id \in IdInputs : ui' = EditPage(id, Some(InitialFormData), FALSE)
    /\ UNCHANGED << listings, nextId, cached, attempts, callers, req, resp, pending >>

\* formData after fetchListing: a thrown fetch, a body that is not JSON and
\* a body with success false leave it; otherwise setFormData(data[0]), which
\* is undefined for an empty array.
FormDataAfterFetch(formData, fetch, answer) ==
    IF fetch = "throws" \/ JsonThrows(answer) THEN formData
    ELSE IF answer.success = "false" THEN formData
    ELSE IF answer.body = << >> THEN None
    ELSE Some(answer.body[1])

\* The fetch of the effect is answered: the get handler runs and the page
\* takes the response.
EditFetched ==
    /\ ui.page = "edit"
    /\ ~ui.fetched
    /\ \E fetch \in FetchOutcomes, ok \in ConnectResults(cached) :
           LET data == [NoFilter EXCEPT !.listingId = Some(ui.id)] IN
           \E r \in GetPOST(listings, data, ok) :
               /\ IF fetch = "throws"
                  THEN UNCHANGED << cached, attempts, req, resp >>
                  ELSE /\ cached' = CachedAfter(ok)
                       /\ attempts' = AttemptsAfter(cached, attempts)
                       /\ req' = [op |-> "query", data |-> data]
                       /\ resp' = r
               /\ ui' = [ui EXCEPT !.formData = FormDataAfterFetch(@, fetch, r),
                                   !.fetched = TRUE]
    /\ UNCHANGED << listings, nextId, callers, pending >>

\* The values typed into the fields of the form.
FormValues == {<<"1">>}

\* handleChange on a field of the rendered form:
\* setFormData(prev => ({...prev, [name]: value})).
EditChange ==
    /\ ui.page = "edit"
    /\ ui.formData # None
    /\ \E name \in FieldNames, value \in FormValues :
           ui' = [ui EXCEPT !.formData =
                      Some([f \in DOMAIN @[1] \cup {name} |->
                                IF f = name THEN value ELSE @[1][f]])]
    /\ UNCHANGED << listings, nextId, cached, attempts, callers, req, resp, pending >>

(* --------------------------- specification ---------------------------- *)

Init ==
    /\ listings = {}
    /\ nextId = 1
    /\ cached = "none"
    /\ attempts = 0
    /\ callers = [k \in Callers |-> "idle"]
    /\ req = [op |-> "none"]
    /\ resp = NoResponse
    /\ pending = [c \in Clients |-> Idle]
    /\ ui = NoPage

\* The store under create, update, delete and lookup by id.
Next == Create \/ Update \/ Delete \/ Lookup

Spec == Init /\ [][Next]_vars

\* The query service searching a store that create and delete populate.
NextSearch == Create \/ Delete \/ Search

SpecSearch == Init /\ [][NextSearch]_vars

\* The query service paging through a store that create and delete populate.
NextPage == Create \/ Delete \/ Paging

SpecPage == Init /\ [][NextPage]_vars

\* The query service filtering a store that create and delete populate.
NextFilter == Create \/ Delete \/ Filter

SpecFilter == Init /\ [][NextFilter]_vars

\* Create requests of two clients overlapping each other and update and
\* delete requests: every await of the create handler is a step of its own.
NextRace == RaceCreate \/ RaceUpdate \/ Delete

NextFault == CreateFault \/ UpdateFault \/ DeleteFault

SpecFault == Init /\ [][NextFault]_vars

SpecRace == Init /\ [][NextRace]_vars

\* Listings with flags and the queries of the search form.
NextFlags == CreateFlagged \/ Delete \/ FlagQuery

SpecFlags == Init /\ [][NextFlags]_vars

\* The search page from its opening, over a store that fills.
NextForm == Create \/ OpenSearch \/ ChangeFormTerm \/ FetchAnswered

SpecForm == Init /\ [][NextForm]_vars

\* The update-listing page over a store that fills.
NextEdit == Create \/ OpenEdit \/ EditFetched \/ EditChange

SpecEdit == Init /\ [][NextEdit]_vars

\* The search page showing a full page, and its button.
NextShown == ShowMore \/ ChangeNumberedTerm \/ FetchAnswered \/ Delete

SpecShown == InitShown /\ [][NextShown]_vars

\* The listing detail page over the store.
NextPost == Create \/ Delete \/ RenderPost

SpecPost == Init /\ [][NextPost]_vars

\* Updates whose formData lacks fields.
NextPartial == Create \/ PartialUpdate

SpecPartial == Init /\ [][NextPartial]_vars

\* connect() one await at a time, with the handlers that call it.
NextConnect == Connect \/ ConnectSettle \/ Lookup \/ Delete

SpecConnect == Init /\ [][NextConnect]_vars

(* ------------------------- terms of the claims ------------------------ *)

Ids(coll) == {l._id : l \in coll}

Range(f) == {f[i] : i \in DOMAIN f}

\* The handler of the last request reached the store.
Connected == cached = "conn"

\* value contains t as a literal substring, letters in either case.
Contains(value, t) ==
    \E k \in 0..(Len(value) - Len(t)) :
        \A j \in 1..Len(t) : LowerChar(t[j]) = LowerChar(value[k + j])

IsSearch(r) == r.op = "query" /\ r.data.searchTerm # None

IsLookup(r) == r.op = "query" /\ r.data.listingId # None

(* ---------------------------- uniqueness ------------------------------ *)

\* C1: in every state that create, update and delete requests reach, in
\* sequence or overlapping, no two persisted listings have the same unitName
\* and no two have the same unitNumber.
C1_UniqueUnitNameAndNumber ==
    \A l, m \in listings :
        l._id # m._id => l.unitName # m.unitName /\ l.unitNumber # m.unitNumber

\* Two listings are persisted, and a create request that passed both probes
\* while another request wrote its unitName or unitNumber has been refused.
C1_Witness ==
    /\ Cardinality(listings) = 2
    /\ req.op = "create"
    /\ resp = Failure(500, CreateInternalError)
    /\ Connected
    /\ \E l \in listings :
           \/ l.unitName = req.data.unitName
           \/ l.unitNumber = Number(req.data.unitNumber)

(* ------------------------------ create -------------------------------- *)

\* C2: a create request whose unitName is that of a persisted listing is
\* answered 400 with the duplicate-unit-name message, and the collection is
\* left as it was.
C2_DuplicateUnitNameRejected ==
    [][ ( /\ req'.op = "create"
          /\ Connected'
          /\ \E l \in listings : l.unitName = req'.data.unitName )
        => /\ resp' = Failure(400, DuplicateUnitName)
           /\ listings' = listings ]_vars

C2_Witness ==
    /\ req.op = "create"
    /\ resp = Failure(400, DuplicateUnitName)
    /\ \E l \in listings : l.unitName = req.data.unitName

\* C3: a create request whose unitName no persisted listing has and whose
\* unitNumber is the number of a persisted listing is answered 400 with the
\* duplicate-unit-number message, and nothing is inserted.
C3_DuplicateUnitNumberRejected ==
    [][ ( /\ req'.op = "create"
          /\ Connected'
          /\ \A l \in listings : l.unitName # req'.data.unitName
          /\ \E l \in listings : l.unitNumber = Number(req'.data.unitNumber) )
        => /\ resp' = Failure(400, DuplicateUnitNumber)
           /\ listings' = listings ]_vars

\* The number was sent as "01" and the listing was created with "1", or the
\* like: the strings differ and the numbers are equal.
C3_Witness ==
    /\ req.op = "create"
    /\ resp = Failure(400, DuplicateUnitNumber)
    /\ \A l \in listings : l.unitName # req.data.unitName
    /\ \E l \in listings :
           /\ l.unitNumber = Number(req.data.unitNumber)
           /\ req.data.unitNumber = <<"0", "1">>

\* C4: a create request that repeats both a persisted unitName and a persisted
\* unitNumber is answered with the duplicate-unit-name message.
C4_UnitNameProbeFirst ==
    [][ ( /\ req'.op = "create"
          /\ Connected'
          /\ \E l \in listings : l.unitName = req'.data.unitName
          /\ \E l \in listings : l.unitNumber = Number(req'.data.unitNumber) )
        => /\ resp'.status = 400
           /\ resp'.message = DuplicateUnitName ]_vars

\* The name is that of one listing and the number that of another.
C4_Witness ==
    /\ req.op = "create"
    /\ resp.message = DuplicateUnitName
    /\ \E l, m \in listings :
           /\ l # m
           /\ l.unitName = req.data.unitName
           /\ l.unitNumber # Number(req.data.unitNumber)
           /\ m.unitNumber = Number(req.data.unitNumber)
           /\ m.unitName # req.data.unitName

\* C5: after a successful create(L) returning id, a get request with
\* listingId = id returns exactly one record, equal to L in the supplied
\* fields, with _id and updatedAt populated.
C5_RoundTripWithUpdatedAt ==
    (req.op = "create" /\ resp.success = "true") =>
        \A r \in GetPOST(listings, [NoFilter EXCEPT !.listingId = Some(resp.id)], TRUE) :
            /\ r.status = 200
            /\ Len(r.body) = 1
            /\ r.body[1]._id = resp.id
            /\ r.body[1].projectName = req.data.projectName
            /\ r.body[1].unitName = req.data.unitName
            /\ r.body[1].unitNumber = Number(req.data.unitNumber)
            /\ "updatedAt" \in DOMAIN r.body[1]

(* ------------------------------ update -------------------------------- *)

\* C6: an update request with a well-formed body whose listingId is the id of
\* no persisted listing is answered 404 'Listing not found', and every
\* persisted listing is left as it was.
C6_UpdateNotFound ==
    [][ ( /\ req'.op = "update"
          /\ Connected'
          /\ IsObjectId(req'.data.listingId)
          /\ ~isNaN(Number(req'.data.formData.unitNumber))
          /\ req'.data.listingId \notin Ids(listings) )
        => /\ resp' = Failure(404, ListingNotFound)
           /\ listings' = listings ]_vars

C6_Witness ==
    /\ req.op = "update"
    /\ resp = Failure(404, ListingNotFound)
    /\ listings # {}
    /\ req.data.listingId \notin Ids(listings)

(* ------------------------------ delete -------------------------------- *)

\* C7: a delete request for the id of a persisted listing removes that listing
\* and no other and is answered with success; from then on the id belongs to
\* no listing, and a get request with that listingId returns no record.
C7_DeleteRemovesExactlyOne ==
    [][ /\ ( /\ req'.op = "delete"
             /\ Connected'
             /\ req'.data.listingId \in Ids(listings) )
           => /\ listings' = {l \in listings : l._id # req'.data.listingId}
              /\ resp' = SuccessMessage(PropertyDeleted)
        /\ \A i \in 1..(nextId - 1) : i \notin Ids(listings) => i \notin Ids(listings')
        /\ ( /\ IsLookup(req')
             /\ Connected'
             /\ IsObjectId(req'.data.listingId[1])
             /\ req'.data.listingId[1] \notin Ids(listings) )
           => resp' = ListingsBody(<< >>) ]_vars

\* A lookup of an id that was handed out and deleted, with another listing
\* still in the collection.
C7_Witness ==
    /\ IsLookup(req)
    /\ req.data.listingId[1] < nextId
    /\ req.data.listingId[1] \notin Ids(listings)
    /\ listings # {}
    /\ resp = ListingsBody(<< >>)

\* C8: a delete request for a well-formed id that no listing has, an id
\* already deleted included, is answered 404 'Property not found.' and leaves
\* the collection as it was.
C8_DeleteRetryNotFound ==
    [][ ( /\ req'.op = "delete"
          /\ Connected'
          /\ IsObjectId(req'.data.listingId)
          /\ req'.data.listingId \notin Ids(listings) )
        => /\ resp' = Failure(404, PropertyNotFound)
           /\ listings' = listings ]_vars

\* The second delete of an id: handed out once, now gone.
C8_Witness ==
    /\ req.op = "delete"
    /\ resp = Failure(404, PropertyNotFound)
    /\ req.data.listingId < nextId
    /\ req.data.listingId \notin Ids(listings)

(* ------------------------------ search -------------------------------- *)

\* C9: for a search term whose trimmed value is not empty and is a number n,
\* the records returned are exactly the listings with unitNumber = n; a
\* listing that has the term in a name and another unitNumber is not among
\* them.
C9_NumericSearchExact ==
    ( /\ IsSearch(req)
      /\ Connected
      /\ Trim(req.data.searchTerm[1]) # << >>
      /\ ~isNaN(Number(Trim(req.data.searchTerm[1]))) )
    => /\ resp.kind = "json" /\ resp.status = 200
       /\ Range(resp.body) =
              {l \in listings : l.unitNumber = Number(Trim(req.data.searchTerm[1]))}

C9_Witness ==
    /\ IsSearch(req)
    /\ Connected
    /\ ~isNaN(Number(Trim(req.data.searchTerm[1])))
    /\ Len(resp.body) = 1
    /\ \E l \in listings :
           /\ l.unitNumber # Number(Trim(req.data.searchTerm[1]))
           /\ \/ Contains(l.projectName, Trim(req.data.searchTerm[1]))
              \/ Contains(l.unitName, Trim(req.data.searchTerm[1]))
           /\ l \notin Range(resp.body)

\* C10: for a search term whose trimmed value is not empty and is no number,
\* the records returned are exactly the listings whose projectName or
\* unitName contains the trimmed term as a literal substring, letters in
\* either case.
C10_TextSearchLiteralSubstring ==
    ( /\ IsSearch(req)
      /\ Connected
      /\ Trim(req.data.searchTerm[1]) # << >>
      /\ isNaN(Number(Trim(req.data.searchTerm[1]))) )
    => /\ resp.kind = "json" /\ resp.status = 200
       /\ Range(resp.body) =
              {l \in listings :
                  \/ Contains(l.projectName, Trim(req.data.searchTerm[1]))
                  \/ Contains(l.unitName, Trim(req.data.searchTerm[1]))}

\* C11: a get request whose searchTerm is absent, empty or nothing but white
\* space is answered as if it carried no search term: with no other filter,
\* every listing is returned.
C11_BlankTermNoPredicate ==
    ( /\ req.op = "query"
      /\ Connected
      /\ req.data.listingId = None
      /\ req.data.startIndex = None /\ req.data.limit = None
      /\ \/ req.data.searchTerm = None
         \/ Trim(req.data.searchTerm[1]) = << >> )
    => /\ resp.kind = "json" /\ resp.status = 200
       /\ Range(resp.body) = listings
       /\ Len(resp.body) = Cardinality(listings)

\* A term of white space only, and two listings returned.
C11_Witness ==
    /\ IsSearch(req)
    /\ Connected
    /\ req.data.searchTerm[1] # << >>
    /\ Trim(req.data.searchTerm[1]) = << >>
    /\ Len(resp.body) = 2

(* ------------------------------ paging -------------------------------- *)

IsPaging(r) ==
    /\ r.op = "query"
    /\ r.data.searchTerm = None /\ r.data.listingId = None /\ r.data.userId = None

Min(a, b) == IF a < b THEN a ELSE b

\* f lists every document of docs once, in an order the sort key allows.
IsSortedArrangement(f, docs, ascending) ==
    /\ Range(f) = docs
    /\ \A i, j \in DOMAIN f : i # j => f[i] # f[j]
    /\ \A i, j \in DOMAIN f :
           i < j => IF ascending
                    THEN UpdatedAt(f[i]) <= UpdatedAt(f[j])
                    ELSE UpdatedAt(f[i]) >= UpdatedAt(f[j])

\* C12: for a startIndex s >= 0 and a limit l >= 1 the records returned are
\* the slice of a sorted sequence of the matching listings that starts after
\* its first s records and has at most l records, in that sequence's order.
C12_PageIsSlice ==
    ( /\ IsPaging(req)
      /\ Connected
      /\ req.data.startIndex # None /\ req.data.limit # None
      /\ req.data.startIndex[1] >= 0
      /\ req.data.limit[1] >= 1 )
    => /\ resp.kind = "json" /\ resp.status = 200
       /\ \E f \in [1..Cardinality(listings) -> listings] :
              /\ IsSortedArrangement(f, listings, req.data.order = Some("asc"))
              /\ resp.body = SubSeq(f, req.data.startIndex[1] + 1,
                                    Min(req.data.startIndex[1] + req.data.limit[1], Len(f)))

\* One record skipped and one of the remaining returned, or none left.
C12_Witness ==
    /\ IsPaging(req)
    /\ Connected
    /\ req.data.startIndex = Some(1)
    /\ req.data.limit = Some(1)
    /\ Cardinality(listings) = 2
    /\ Len(resp.body) = 1

\* C13: a get request with order 'asc' returns the listings by updatedAt,
\* least recently mutated first; with order 'desc' or no order, by updatedAt,
\* most recently mutated first.  (Where listings are only created and
\* deleted, a listing with a smaller _id was mutated earlier.)
C13_SortedByUpdatedAt ==
    ( /\ IsPaging(req)
      /\ Connected
      /\ resp.status = 200 )
    => \A i, j \in DOMAIN resp.body :
           i < j =>
               /\ "updatedAt" \in DOMAIN resp.body[i]
               /\ "updatedAt" \in DOMAIN resp.body[j]
               /\ IF req.data.order = Some("asc")
                  THEN /\ resp.body[i].updatedAt <= resp.body[j].updatedAt
                       /\ resp.body[i]._id < resp.body[j]._id
                  ELSE /\ resp.body[i].updatedAt >= resp.body[j].updatedAt
                       /\ resp.body[i]._id > resp.body[j]._id

\* C14: every persisted listing carries updatedAt, and the listing that the
\* last successful create or update wrote has the greatest.
C14_UpdatedAtMaintained ==
    /\ \A l \in listings : "updatedAt" \in DOMAIN l
    /\ (req.op \in {"create", "update"} /\ resp.success = "true") =>
           \E l \in listings :
               /\ l._id = resp.id
               /\ \A m \in listings : m.updatedAt <= l.updatedAt

(* ------------------------------ filters ------------------------------- *)

\* C15: every record a get request returns satisfies every filter the request
\* carries: its owner field equals userId, its _id equals listingId, and it
\* matches the search clause of the term.
C15_AllFiltersApply ==
    ( /\ req.op = "query"
      /\ Connected
      /\ resp.status = 200 )
    => \A i \in DOMAIN resp.body :
           /\ req.data.userId # None =>
                  /\ "userId" \in DOMAIN resp.body[i]
                  /\ resp.body[i].userId = req.data.userId[1]
           /\ req.data.listingId # None => resp.body[i]._id = req.data.listingId[1]
           /\ (req.data.searchTerm # None /\ Trim(req.data.searchTerm[1]) # << >>)
                  => SearchPredicate(req.data.searchTerm[1], resp.body[i])

(* ------------------------------ defaults ------------------------------ *)

Max(a, b) == IF a > b THEN a ELSE b

Failed(r) ==
    /\ r.kind # "none"
    /\ ~(r.kind = "json" /\ r.status = 200)

\* C17: a request of any of the four handlers that fails, a failed database
\* connection included, is answered with a structured response marked
\* success = false; no exception leaves the handler.
C17_FailuresStructured ==
    Failed(resp) => ( /\ resp.kind = "json" /\ resp.success = "false" )

(* ---------------------------- all or nothing -------------------------- *)

\* What a create, update or delete request that reports success changes.
ChangeApplied(before, after, r, answer) ==
    CASE r.op = "create" ->
             /\ answer.id \notin Ids(before)
             /\ after = before \cup {NewDocument(r.data, answer.id)}
      [] r.op = "update" ->
             \E old \in before :
                 /\ old._id = r.data.listingId
                 /\ after = (before \ {old}) \cup {SetFields(old, r.data.formData)}
      [] r.op = "delete" ->
             \E old \in before :
                 /\ old._id = r.data.listingId
                 /\ after = before \ {old}

\* C18: a create, update or delete request that reports failure leaves the
\* persisted listings as they were before it; one that reports success has
\* applied its whole change.
C18_AllOrNothing ==
    [][ /\ Failed(resp') => listings' = listings
        /\ ~Failed(resp') => ChangeApplied(listings, listings', req', resp') ]_vars

(* ------------------------- overlapping creates ------------------------ *)

\* Client c passed both probes, and the request answered last was another
\* create whose inserted listing has c's unitName or c's unitNumber.
RacedBy(c) ==
    /\ pending[c].pc = "probedNumber"
    /\ req.op = "create"
    /\ resp.success = "true"
    /\ \E l \in listings :
           /\ l._id = resp.id
           /\ \/ l.unitName = pending[c].data.unitName
              \/ l.unitNumber = CastNumber(pending[c].data.unitNumber)

\* The step in which client c's Listing.create is answered.
InsertAnswered(c) ==
    /\ pending[c].pc = "probedNumber"
    /\ pending'[c] = Idle

\* C19 as stated: when two overlapping create requests with the same unitName
\* (or unitNumber) have both passed the probes, both insert, and the store
\* then holds two listings with that value.
C19_RaceStoresDuplicate ==
    [][ \A c \in Clients :
            (RacedBy(c) /\ InsertAnswered(c))
            => \E l, m \in listings' :
                   /\ l._id # m._id
                   /\ \/ l.unitName = m.unitName
                      \/ l.unitNumber = m.unitNumber ]_vars

\* C19: two overlapping create requests with the same unitName (or unitNumber)
\* can both pass the probes before either inserts; the insert of the second
\* is then refused by the unique index, the request is answered 500, and the
\* store holds the one listing of the first.
C19_RaceSecondInsertRefused ==
    [][ \A c \in Clients :
            (RacedBy(c) /\ InsertAnswered(c))
            => /\ listings' = listings
               /\ req' = [op |-> "create", data |-> pending[c].data]
               /\ resp' = Failure(500, CreateInternalError)
               /\ \A l, m \in listings' :
                      l._id # m._id
                      => l.unitName # m.unitName /\ l.unitNumber # m.unitNumber ]_vars

\* A create request that passed both probes was answered 500 because a
\* persisted listing has its unitName; one listing with that unitName is
\* persisted.
C19_Witness ==
    /\ req.op = "create"
    /\ resp = Failure(500, CreateInternalError)
    /\ Connected
    /\ \A c \in Clients : pending[c] = Idle
    /\ Cardinality({l \in listings : l.unitName = req.data.unitName}) = 1
    /\ ExistingUnitNumber(listings, req.data) = {}

(* ----------------------- update to a held value ----------------------- *)

\* The request just answered is an update, over an established connection,
\* of the listing target to a unitName or unitNumber that the different
\* listing other holds.
UpdatesToHeldValue(target, other) ==
    /\ req'.op = "update"
    /\ cached' = "conn"
    /\ ~isNaN(CastNumber(req'.data.formData.unitNumber))
    /\ target._id = req'.data.listingId
    /\ other._id # target._id
    /\ \/ other.unitName = req'.data.formData.unitName
       \/ other.unitNumber = CastNumber(req'.data.formData.unitNumber)

\* C20 as stated: an update that sets the unitName or unitNumber of a listing
\* to a value held by a different listing succeeds and the duplicate value
\* is persisted.
C20_UpdatePersistsDuplicate ==
    [][ \A target, other \in listings :
            UpdatesToHeldValue(target, other)
            => /\ resp'.success = "true"
               /\ SetFields(target, req'.data.formData) \in listings'
               /\ other \in listings' ]_vars

\* C20: the update handler does no uniqueness check of its own, and an update
\* that sets the unitName or unitNumber of a listing to a value held by a
\* different listing is refused by the unique index: it is answered 500
\* "Error updating post" and the collection is unchanged.
C20_UpdateToDuplicateRefused ==
    [][ \A target, other \in listings :
            UpdatesToHeldValue(target, other)
            => /\ resp' = Failure(500, UpdateInternalError)
               /\ listings' = listings ]_vars

\* An update of a persisted listing to the unitName or unitNumber of another
\* persisted listing has been answered 500.
C20_Witness ==
    /\ req.op = "update"
    /\ Connected
    /\ resp = Failure(500, UpdateInternalError)
    /\ ~isNaN(CastNumber(req.data.formData.unitNumber))
    /\ \E target, other \in listings :
           /\ target._id = req.data.listingId
           /\ other._id # target._id
           /\ \/ other.unitName = req.data.formData.unitName
              \/ other.unitNumber = CastNumber(req.data.formData.unitNumber)

(* ----------------------------- connection ----------------------------- *)

\* The callers whose connect() call ends in this step, and how.
Ended(outcome) ==
    {k \in Callers : callers[k] # callers'[k] /\ callers'[k] = outcome}

\* C21: however connect() calls follow or overlap one another, at most one
\* mongoose.connect is ever started, and once it has succeeded no call starts
\* another and every call that ends returns the cached connection.
C21_OneConnectionAttempt ==
    [][ /\ attempts' <= 1
        /\ cached \in {"resolved", "conn"}
               => /\ attempts' = attempts
                  /\ cached' \in {"resolved", "conn"}
                  /\ Ended("threw") = {} ]_vars

\* The one attempt succeeded, every caller has called connect(), calls
\* overlapped (one is still waiting), and one caller got the connection.
C21_Witness ==
    /\ attempts = 1
    /\ cached = "conn"
    /\ \A k \in Callers : callers[k] # "idle"
    /\ \E k \in Callers : callers[k] = "awaiting"
    /\ \E k \in Callers : callers[k] = "returned"

(* ------------------------------- update ------------------------------- *)

\* new is old with every field that formData supplies set to the supplied
\* value (unitNumber to the number it denotes) and every other field kept.
IsUpdateOf(new, old, formData) ==
    /\ DOMAIN new = DOMAIN old
    /\ new._id = old._id
    /\ new.projectName = IF "projectName" \in DOMAIN formData
                         THEN formData.projectName ELSE old.projectName
    /\ new.unitName = IF "unitName" \in DOMAIN formData
                      THEN formData.unitName ELSE old.unitName
    /\ new.unitNumber = IF "unitNumber" \in DOMAIN formData
                        THEN Number(formData.unitNumber) ELSE old.unitNumber

\* C22: a successful update sets each named field that formData supplies, on
\* the listing with the id, to the supplied value; a named field that
\* formData lacks keeps its value, as does _id, and every other listing is
\* unchanged.
C22_UpdateFrame ==
    [][ (req'.op = "update" /\ resp'.success = "true")
        => \E old \in listings :
               /\ old._id = req'.data.listingId
               /\ \E new \in listings' :
                      /\ IsUpdateOf(new, old, req'.data.formData)
                      /\ listings' \ {new} = listings \ {old} ]_vars

\* A successful update that supplied unitName only and changed it, beside
\* another listing.
C22_Witness ==
    /\ req.op = "update"
    /\ resp.success = "true"
    /\ DOMAIN req.data.formData = {"unitName"}
    /\ Cardinality(listings) = 2
    /\ \E l \in listings :
           /\ l._id = req.data.listingId
           /\ l.unitName = req.data.formData.unitName
           /\ l.unitName # <<"a">>
           /\ l.projectName # << >>

(* ------------------------- listing detail page ------------------------ *)

\* The listing of the rendered detail page could not be loaded: the fetch
\* threw, the API answered with an error, or no listing has the id.
NotLoaded ==
    /\ ui.page = "post"
    /\ \/ ui.fetch = "throws"
       \/ Failed(ui.answer)
       \/ ui.answer.body = << >>

\* C23: whenever the listing of the detail page cannot be loaded, the page
\* renders the 'Listing Not Found' view and never the detail view.
C23_NotLoadedShowsNotFound ==
    NotLoaded => ui.view = "Listing Not Found"

(* ----------------------------- search page ---------------------------- *)

\* C24: clicking 'Show more' when n listings are displayed requests the
\* records from index n, appends the records the store has from there (at
\* most a page of them) to the displayed list, and hides the button when
\* they are fewer than a page.
C24_ShowMoreAppends ==
    [][ (req'.op = "showMore" /\ req' # req /\ ui.term = << >>)
        => LET n == Len(ui.listings)
               m == Cardinality(listings)
           IN  /\ req'.startIndex = n
               /\ Len(ui'.listings) = Min(m, n + PageSize)
               /\ SubSeq(ui'.listings, 1, n) = ui.listings
               /\ Range(ui'.listings) \subseteq listings
               /\ m - n < PageSize => ~ui'.showMore ]_vars

(* ------------------------------- flags -------------------------------- *)

\* C25: a query sent with flags of the search form returns only listings
\* whose fields agree with those flags.
C25_FlagsRestrictResult ==
    ( /\ req.op = "query" /\ Connected /\ resp.status = 200
      /\ "offer" \in DOMAIN req.data )
    => \A i \in DOMAIN resp.body :
           /\ resp.body[i].sell = req.data.sell
           /\ resp.body[i].offer = req.data.offer

(* -------------------------- rejected inserts -------------------------- *)

\* C26: when a create request has passed both probes and the store rejects
\* its insert because a listing now has its unitName or unitNumber, the
\* request is answered with the generic internal error, status 500, not with
\* a duplicate message, and nothing of the request is persisted.
C26_RejectedInsertIsInternalError ==
    [][ \A c \in Clients :
            ( /\ InsertAnswered(c)
              /\ \E l \in listings :
                     \/ l.unitName = pending[c].data.unitName
                     \/ l.unitNumber = Number(pending[c].data.unitNumber) )
            => /\ resp'.status = 500
               /\ resp'.success = "false"
               /\ resp'.message \notin {DuplicateUnitName, DuplicateUnitNumber}
               /\ listings' = listings
               /\ nextId' = nextId ]_vars

\* A create request that passed both probes was answered 500 because a
\* persisted listing has its unitNumber, and no listing has its unitName.
C26_Witness ==
    /\ req.op = "create"
    /\ resp = Failure(500, CreateInternalError)
    /\ Connected
    /\ \A c \in Clients : pending[c] = Idle
    /\ ExistingUnitName(listings, req.data) = {}
    /\ Cardinality(ExistingUnitNumber(listings, req.data)) = 1

(* -------------------------- failed connection ------------------------- *)

\* C27: once the connection attempt has failed, the rejected promise stays
\* cached: no connect() call starts another attempt, every call that ends
\* throws, and every request a handler answers from then on fails.
C27_RejectedStaysCached ==
    [][ cached = "rejected"
        => /\ cached' = "rejected"
           /\ attempts' = attempts
           /\ Ended("returned") = {}
           /\ << req', resp' >> # << req, resp >> => Failed(resp') ]_vars

\* The one attempt failed; every caller has since been thrown the error
\* and a handler's request has failed.
C27_Witness ==
    /\ cached = "rejected"
    /\ attempts = 1
    /\ \A k \in Callers : callers[k] = "threw"
    /\ req.op = "query"
    /\ resp = Uncaught

(* --------------------------- skip and limit --------------------------- *)

\* C28: whatever the request body, the skip the query applies is not
\* negative and its limit is positive.
C28_SkipAndLimitInRange ==
    IsPaging(req)
    => /\ QueryPlan(req.data).startIndex >= 0
       /\ QueryPlan(req.data).limit > 0

(* ------------------------- overlapping fetches ------------------------ *)

\* C29: when the search term changed while a fetchListings request was
\* unanswered, then once every request is answered the listings displayed
\* are those of a response to the term the form now has, in whatever order
\* the responses arrived.
C29_LatestTermDisplayed ==
    [][ ( /\ ui.page = "search"
          /\ ui.inflight # {}
          /\ ui'.inflight = {}
          /\ ui'.listings # << >> )
        => \E r \in GetListings(listings', FetchBody(ui'.term)) :
               /\ r.status = 200
               /\ r.body = ui'.listings ]_vars

(* ------------------------- update-listing page ------------------------ *)

\* C30: on the update-listing page formData is at all times a defined
\* record with every field of the form, also after the fetch of the effect
\* returned an empty array.
C30_FormDataDefined ==
    ui.page = "edit"
    => /\ ui.formData # None
       /\ FieldNames \subseteq DOMAIN ui.formData[1]

====
